---- MODULE Spec2Model ----
(***************************************************************************)
(* OAuth2 token lifecycle of spotli: SpotifyAuth.get_access_token and the  *)
(* helpers it calls, in the two implementations the repository carries:    *)
(*   "base" : src/spotli/base/authorization.py                             *)
(*   "flat" : src/spotli/authorization.py (imported by src/spotli/cli.py)  *)
(* Time is counted in ticks, TicksPerSec ticks to the second, since        *)
(* datetime.now() has sub-second resolution while the persisted            *)
(* expires_at string ("%Y-%m-%dT%H:%M:%S") has whole seconds only.         *)
(***************************************************************************)
EXTENDS Integers, Sequences, FiniteSets, TLC

VARIABLES
    impl,       \* which implementation of SpotifyAuth is installed
    now,        \* wall clock, in ticks (datetime.now())
    file,       \* the token file at TOKEN_PATH
    args,       \* per process: the command line options of `spotli auth`
    env,        \* per process: the SPOTLI_* environment variables
    creds,      \* per process: self.client_id, self.client_secret, self.redirect_uri
    pc,         \* per process: position inside get_access_token()
    path,       \* per process: branch taken by get_access_token()
    tokens,     \* per process: the local `tokens` dict
    reqs,       \* per process: requests sent to TOKEN_URL in this call
    urlShown,   \* per process: the authorization URL has been echoed/opened
    listener,   \* per process: state of the loopback HTTPServer
    result,     \* per process: value returned or exception raised
    query,      \* per process: parsed query of the callback request handled
    resp,       \* per process: last answer of the token endpoint
    file0,      \* per process: the token file as it was when the call began
    calls,      \* per process: number of invocations so far
    inbox,      \* per process: connections waiting on the listening socket
    handled,    \* per process: requests handled by handle_request() in this call
    method,     \* per process: HTTP method of the callback request handled
    saved,      \* the last _save_tokens call: its argument and its datetime.now()
    writer,     \* the process whose json.dump reached the token file last
    apiToken,   \* result of SpotifyAPI._load_tokens() in a player command
    exit,       \* per process: how the auth command ended (status, output)
    refused,    \* per process: a connection to the redirect port was refused
    apiSent,    \* bearer tokens of the requests a player command has sent
    apiResp,    \* last answer of the Web API
    apiResult,  \* what SpotifyAPI._request returned or raised
    uri,        \* queue command: the URI argument, None when absent
    qresult,    \* queue command: what player.queue() returned
    queue,      \* queue command: tracks not yet printed
    starts,     \* queue command: number of the first line of a page
    out,        \* queue command: lines echoed so far
    qpc         \* queue command: position in the handler

vars == <<impl, now, file, args, env, creds, pc, path, tokens, reqs,
          urlShown, listener, query, resp, result, file0, calls, inbox,
          handled, method, saved, writer, apiToken, exit, refused, apiSent,
          apiResp, apiResult, uri, qresult, queue, starts, out, qpc>>

-----------------------------------------------------------------------------
(* Bounds of the model *)

TicksPerSec == 2
MaxTime == 6
MaxCalls == 2
MaxRequests == 2

Procs == {1, 2}
Impls == {"base", "flat"}

-----------------------------------------------------------------------------
(* Python values *)

None == "<None>"
Truthy(v) == v \notin {None, ""}

NoData == <<>>

\* variant: stored fields win over the fields of the response
DictUpdateOldWins(old, new) ==
    [k \in (DOMAIN old) \cup (DOMAIN new) |->
        IF k \in DOMAIN old THEN old[k] ELSE new[k]]

\* dict.update(new): new fields overwrite, missing fields keep old values
DictUpdate(old, new) ==
    [k \in (DOMAIN old) \cup (DOMAIN new) |->
        IF k \in DOMAIN new THEN new[k] ELSE old[k]]

\* d[k] = v
SetItem(d, k, v) ==
    [x \in (DOMAIN d) \cup {k} |-> IF x = k THEN v ELSE d[x]]

-----------------------------------------------------------------------------
(* Credentials *)

\* insertion order of arg_dict in _check_arguments
Fields == <<"client_id", "client_secret", "redirect_uri">>
FieldSet == {"client_id", "client_secret", "redirect_uri"}

\* the key under which _check_arguments reports a field
ArgKey(i, f) ==
    IF i = "base" THEN f
    ELSE CASE f = "client_id" -> "SPOTLI_CLIENT_ID"
           [] f = "client_secret" -> "SPOTLI_CLIENT_SECRET"
           [] f = "redirect_uri" -> "SPOTLI_REDIRECT_URI"

\* click option with auto_envvar_prefix="SPOTLI": the command line value when
\* one was given, else the environment variable when it is set and non-empty
ClickOption(a, e) ==
    IF a # None THEN a ELSE IF Truthy(e) THEN e ELSE None

\* SpotifyAuth.__init__
SpotifyAuthInit(i, a, e) ==
    IF i = "base" THEN a
    ELSE IF Truthy(a) THEN a ELSE e

\* auth command: SpotifyAuth(client_id, client_secret, redirect_uri)
Resolve(i, a, e) ==
    [f \in FieldSet |-> SpotifyAuthInit(i, ClickOption(a[f], e[f]), e[f])]

\* variant: only the first empty field is reported
MissingArgsFirst(i, c) ==
    LET empty == SelectSeq(Fields, LAMBDA f : c[f] \in {None, ""})
    IN  IF empty = <<>> THEN <<>> ELSE <<ArgKey(i, empty[1])>>

\* missing_args = [k for k, v in arg_dict.items() if not v]
MissingArgs(i, c) ==
    LET empty == SelectSeq(Fields, LAMBDA f : ~Truthy(c[f]))
    IN  [n \in 1..Len(empty) |-> ArgKey(i, empty[n])]

-----------------------------------------------------------------------------
(* Time and the expires_at string *)

\* timedelta(seconds=n)
Timedelta(n) == n * TicksPerSec

\* variant: the time is rounded up to the next whole second
StrftimeCeil(t) == (t + TicksPerSec - 1) \div TicksPerSec

\* variant: the time is rounded to the nearest second
StrftimeRound(t) == (t + TicksPerSec \div 2) \div TicksPerSec

\* t.strftime("%Y-%m-%dT%H:%M:%S"): the sub-second part is dropped; the string
\* is represented by the number of whole seconds it denotes
Strftime(t) == t \div TicksPerSec

\* variant: the parsed seconds are taken for clock ticks
StrptimeRaw(s) == s

\* datetime.strptime(s, "%Y-%m-%dT%H:%M:%S")
Strptime(s) == s * TicksPerSec

\* variant: expires_at <= datetime.now()
ExpiredLe(expires_at, t) == Strptime(expires_at) <= t

\* variant: the token counts as expired one second ahead of expires_at
ExpiredMargin(expires_at, t) == Strptime(expires_at) < t + TicksPerSec

\* expires_at < datetime.now()
Expired(expires_at, t) == Strptime(expires_at) < t

-----------------------------------------------------------------------------
(* Token file and token endpoint *)

Absent == [state |-> "absent", data |-> NoData]
Truncated == [state |-> "empty", data |-> NoData]
Json(d) == [state |-> "json", data |-> d]
\* bytes that are no JSON document
Garbage == [state |-> "garbage", data |-> NoData]

\* no _save_tokens call yet
NoSave == [done |-> FALSE, arg |-> NoData, at |-> 0]

Omit == "<omitted>"

\* JSON body of a token endpoint answer: access_token and expires_in, and
\* optionally refresh_token and scope
Body(a, ei, r, s) ==
    LET core == [k \in {"access_token", "expires_in"} |->
                    IF k = "access_token" THEN a ELSE ei]
        r1 == IF r = Omit THEN core ELSE SetItem(core, "refresh_token", r)
    IN  IF s = Omit THEN r1 ELSE SetItem(r1, "scope", s)

\* the bodies response.json() may return, among them bodies in which the
\* provider sends an expires_at of its own
RespBodies ==
    LET plain == { Body(a, ei, r, s) :
                     a \in {"A1", "A2"}, ei \in {0, 1}, r \in {Omit, "R1"},
                     s \in {Omit, "s1"} }
    IN  plain \cup { SetItem(b, "expires_at", 9) : b \in plain }

\* the authorization_code grant of the provider always issues a refresh_token;
\* only the refresh_token grant may omit it
ExchangeBodies == { b \in RespBodies : "refresh_token" \in DOMAIN b }

\* 304 stands for the statuses below 400 that requests hands back without
\* following a redirect; such an answer has an empty body
Statuses == {200, 304, 400, 500}

\* JSON body of an error answer
ErrorBody == [error |-> "invalid_grant"]

\* a record written by an earlier run of the program
StoredRecord ==
    [k \in {"access_token", "refresh_token", "expires_in", "expires_at", "scope"} |->
        CASE k = "access_token" -> "A0"
          [] k = "refresh_token" -> "R0"
          [] k = "expires_in" -> 1
          [] k = "expires_at" -> 1
          [] k = "scope" -> "s0"]

\* query strings of the callback request, after parse_qs (blank values dropped)
Queries == { [code |-> "ABC123"], [code |-> "XYZ789"],
             [error |-> "access_denied"], NoData }

\* the auth command has not ended
NoExit == [done |-> FALSE, code |-> 0, out |-> <<>>, uncaught |-> ""]

\* click.echo(text) / click.secho(f" - {text}", fg="red")
Echo(text) == [text |-> text, bullet |-> FALSE, fg |-> ""]
Secho(text) == [text |-> text, bullet |-> TRUE, fg |-> "red"]

\* the auth command returns: exit status 0, with what it printed
Exited(lines) == [done |-> TRUE, code |-> 0, out |-> lines, uncaught |-> ""]

\* raise click.Abort(): click prints "Aborted!" and exits with status 1
Aborted == [done |-> TRUE, code |-> 1, out |-> <<Echo("Aborted!")>>, uncaught |-> ""]

\* raise err: the exception leaves the command and the interpreter ends
\* with status 1
Uncaught(e) == [done |-> TRUE, code |-> 1, out |-> <<>>, uncaught |-> e]

\* requests that reach the loopback port: the redirect of the browser (a GET),
\* or anything else a local client sends
Requests ==
    { [method |-> "GET", query |-> q] : q \in Queries }
    \cup { [method |-> "POST", query |-> [code |-> "ABC123"]] }

NoResp == [status |-> 0, body |-> NoData]

NoResult ==
    [kind |-> "none", value |-> "", exc |-> "", missing |-> <<>>,
     status |-> 0, body |-> NoData]
Returned(v) ==
    [kind |-> "return", value |-> v, exc |-> "", missing |-> <<>>,
     status |-> 0, body |-> NoData]
Raised(e) ==
    [kind |-> "raise", value |-> "", exc |-> e, missing |-> <<>>,
     status |-> 0, body |-> NoData]
RaisedMissing(m) ==
    [kind |-> "raise", value |-> "", exc |-> "MissingRequiredArgumentsError",
     missing |-> m, status |-> 0, body |-> NoData]
\* requests.HTTPError(response=r): the exception carries the response
RaisedHTTP(r) ==
    [kind |-> "raise", value |-> "", exc |-> "HTTPError", missing |-> <<>>,
     status |-> r.status, body |-> r.body]

-----------------------------------------------------------------------------
(* Inputs of one invocation *)

\* options given on the command line of `spotli auth`
InvokeArgs == [FieldSet -> {None, "x"}]

\* SPOTLI_* variables of the calling shell
InvokeEnvs == { [f \in FieldSet |-> None],
                [f \in FieldSet |-> IF f = "client_secret" THEN "e" ELSE None] }

AllArgs == [FieldSet -> {None, "", "x"}]
AllEnvs == [FieldSet -> {None, "", "e"}]

NoCreds == [f \in FieldSet |-> None]

-----------------------------------------------------------------------------
(* Initial states *)

InitCommon ==
    /\ impl \in Impls
    /\ now = 0
    /\ file \in {Absent, Json(StoredRecord), Garbage}
    /\ args = [p \in Procs |-> NoCreds]
    /\ env = [p \in Procs |-> NoCreds]
    /\ creds = [p \in Procs |-> NoCreds]
    /\ path = [p \in Procs |-> "none"]
    /\ tokens = [p \in Procs |-> NoData]
    /\ reqs = [p \in Procs |-> <<>>]
    /\ urlShown = [p \in Procs |-> FALSE]
    /\ listener = [p \in Procs |-> "none"]
    /\ query = [p \in Procs |-> NoData]
    /\ resp = [p \in Procs |-> NoResp]
    /\ result = [p \in Procs |-> NoResult]
    /\ file0 = [p \in Procs |-> file]
    /\ calls = [p \in Procs |-> 0]
    /\ inbox = [p \in Procs |-> <<>>]
    /\ handled = [p \in Procs |-> 0]
    /\ method = [p \in Procs |-> ""]
    /\ saved = NoSave
    /\ writer = 0
    /\ apiToken = NoResult
    /\ exit = [p \in Procs |-> NoExit]
    /\ refused = [p \in Procs |-> FALSE]
    /\ apiSent = <<>>
    /\ apiResp = NoResp
    /\ apiResult = NoResult
    /\ uri = None
    /\ qresult = <<>>
    /\ queue = <<>>
    /\ starts = 0
    /\ out = <<>>
    /\ qpc = "off"

\* one command line at a time
Init ==
    /\ InitCommon
    /\ pc = [p \in Procs |-> IF p = 1 THEN "idle" ELSE "off"]

-----------------------------------------------------------------------------
(* The auth command and get_access_token(), step by step *)

\* the user runs `spotli auth [--client_id ..] [--client_secret ..] [--redirect_uri ..]`
Invoke(p) ==
    /\ pc[p] = "idle" \/ (pc[p] \in {"done", "failed"} /\ exit[p].done)
    /\ calls[p] < MaxCalls
    /\ \E a \in InvokeArgs, e \in InvokeEnvs :
          /\ args' = [args EXCEPT ![p] = a]
          /\ env' = [env EXCEPT ![p] = e]
    /\ calls' = [calls EXCEPT ![p] = @ + 1]
    /\ pc' = [pc EXCEPT ![p] = "new"]
    /\ path' = [path EXCEPT ![p] = "none"]
    /\ tokens' = [tokens EXCEPT ![p] = NoData]
    /\ reqs' = [reqs EXCEPT ![p] = <<>>]
    /\ urlShown' = [urlShown EXCEPT ![p] = FALSE]
    /\ listener' = [listener EXCEPT ![p] = "none"]
    /\ query' = [query EXCEPT ![p] = NoData]
    /\ resp' = [resp EXCEPT ![p] = NoResp]
    /\ result' = [result EXCEPT ![p] = NoResult]
    /\ file0' = [file0 EXCEPT ![p] = file]
    /\ creds' = [creds EXCEPT ![p] = NoCreds]
    /\ inbox' = [inbox EXCEPT ![p] = <<>>]
    /\ handled' = [handled EXCEPT ![p] = 0]
    /\ method' = [method EXCEPT ![p] = ""]
    /\ exit' = [exit EXCEPT ![p] = NoExit]
    /\ refused' = [refused EXCEPT ![p] = FALSE]
    /\ UNCHANGED <<impl, now, file, saved, writer, apiToken, apiSent, apiResp, apiResult, uri,
                   qresult, queue, starts, out, qpc>>

\* SpotifyAuth(client_id, client_secret, redirect_uri)
Construct(p) ==
    /\ pc[p] = "new"
    /\ creds' = [creds EXCEPT ![p] = Resolve(impl, args[p], env[p])]
    /\ pc' = [pc EXCEPT ![p] = "load"]
    /\ UNCHANGED <<impl, now, file, args, env, path, tokens, reqs, urlShown,
                   listener, result, query, resp, file0, calls,
                   inbox, handled, method, saved, writer, apiToken, exit,
                   refused, apiSent, apiResp, apiResult, uri, qresult, queue,
                   starts, out, qpc>>

\* variant: a file that cannot be decoded counts as no token
LoadTokensLenient(p) ==
    /\ pc[p] = "load"
    /\ IF file.state = "json" /\ DOMAIN file.data # {}
       THEN /\ tokens' = [tokens EXCEPT ![p] = file.data]
            /\ pc' = [pc EXCEPT ![p] = "expiry"]
            /\ path' = path
       ELSE /\ tokens' = [tokens EXCEPT ![p] = NoData]
            /\ pc' = [pc EXCEPT ![p] = "check_args"]
            /\ path' = [path EXCEPT ![p] = "authorize"]
    /\ UNCHANGED <<impl, now, file, args, env, creds, reqs, urlShown,
                   listener, query, resp, result, file0, calls,
                   inbox, handled, method, saved, writer, apiToken, exit,
                   refused, apiSent, apiResp, apiResult, uri, qresult, queue,
                   starts, out, qpc>>

\* tokens = self._load_tokens(); if tokens: ...
LoadTokens(p) ==
    /\ pc[p] = "load"
    /\ CASE file.state = "json" /\ DOMAIN file.data # {} ->
              /\ tokens' = [tokens EXCEPT ![p] = file.data]
              /\ pc' = [pc EXCEPT ![p] = "expiry"]
              /\ UNCHANGED <<path, result>>
         [] file.state = "absent" \/ (file.state = "json" /\ DOMAIN file.data = {}) ->
              /\ tokens' = [tokens EXCEPT ![p] = NoData]
              /\ pc' = [pc EXCEPT ![p] = "check_args"]
              /\ path' = [path EXCEPT ![p] = "authorize"]
              /\ UNCHANGED result
         [] OTHER ->
              \* json.load of a file that holds no JSON document
              /\ result' = [result EXCEPT ![p] = Raised("JSONDecodeError")]
              /\ pc' = [pc EXCEPT ![p] = "failed"]
              /\ UNCHANGED <<tokens, path>>
    /\ UNCHANGED <<impl, now, file, args, env, creds, reqs, urlShown,
                   listener, query, resp, file0, calls,
                   inbox, handled, method, saved, writer, apiToken, exit,
                   refused, apiSent, apiResp, apiResult, uri, qresult, queue,
                   starts, out, qpc>>

\* variant: an expired token starts the authorization flow anew
CheckExpiryReauth(p) ==
    /\ pc[p] = "expiry"
    /\ CASE "expires_at" \notin DOMAIN tokens[p] ->
              /\ pc' = [pc EXCEPT ![p] = "failed"]
              /\ result' = [result EXCEPT ![p] = Raised("TypeError")]
              /\ path' = path
         [] "expires_at" \in DOMAIN tokens[p]
               /\ Expired(tokens[p]["expires_at"], now) ->
              /\ pc' = [pc EXCEPT ![p] = "check_args"]
              /\ path' = [path EXCEPT ![p] = "authorize"]
              /\ result' = result
         [] OTHER ->
              /\ pc' = [pc EXCEPT ![p] = IF "access_token" \in DOMAIN tokens[p]
                                         THEN "done" ELSE "failed"]
              /\ path' = [path EXCEPT ![p] = "valid"]
              /\ result' = [result EXCEPT ![p] =
                              IF "access_token" \in DOMAIN tokens[p]
                              THEN Returned(tokens[p]["access_token"])
                              ELSE Raised("KeyError")]
    /\ UNCHANGED <<impl, now, file, args, env, creds, tokens, reqs, urlShown,
                   listener, query, resp, file0, calls,
                   inbox, handled, method, saved, writer, apiToken, exit,
                   refused, apiSent, apiResp, apiResult, uri, qresult, queue,
                   starts, out, qpc>>

\* if expires_at < datetime.now(): ... else: ...; return tokens["access_token"]
CheckExpiry(p) ==
    /\ pc[p] = "expiry"
    /\ CASE "expires_at" \notin DOMAIN tokens[p] ->
              \* datetime.strptime(None, ...)
              /\ pc' = [pc EXCEPT ![p] = "failed"]
              /\ result' = [result EXCEPT ![p] = Raised("TypeError")]
              /\ path' = path
         [] "expires_at" \in DOMAIN tokens[p]
               /\ Expired(tokens[p]["expires_at"], now) ->
              /\ pc' = [pc EXCEPT ![p] = "check_args"]
              /\ path' = [path EXCEPT ![p] = "refresh"]
              /\ result' = result
         [] OTHER ->
              /\ pc' = [pc EXCEPT ![p] = IF "access_token" \in DOMAIN tokens[p]
                                         THEN "done" ELSE "failed"]
              /\ path' = [path EXCEPT ![p] = "valid"]
              /\ result' = [result EXCEPT ![p] =
                              IF "access_token" \in DOMAIN tokens[p]
                              THEN Returned(tokens[p]["access_token"])
                              ELSE Raised("KeyError")]
    /\ UNCHANGED <<impl, now, file, args, env, creds, tokens, reqs, urlShown,
                   listener, query, resp, file0, calls,
                   inbox, handled, method, saved, writer, apiToken, exit,
                   refused, apiSent, apiResp, apiResult, uri, qresult, queue,
                   starts, out, qpc>>

\* variant: the credentials are checked on the refresh branch only
CheckArgumentsRefreshOnly(p) ==
    /\ pc[p] = "check_args"
    /\ LET missing_args == IF path[p] = "refresh"
                           THEN MissingArgs(impl, creds[p]) ELSE <<>>
       IN  IF missing_args # <<>>
           THEN /\ result' = [result EXCEPT ![p] = RaisedMissing(missing_args)]
                /\ pc' = [pc EXCEPT ![p] = "failed"]
           ELSE /\ result' = result
                /\ pc' = [pc EXCEPT ![p] =
                            IF path[p] = "refresh" THEN "refresh_req" ELSE "auth_url"]
    /\ UNCHANGED <<impl, now, file, args, env, creds, path, tokens, reqs,
                   urlShown, listener, query, resp, file0, calls,
                   inbox, handled, method, saved, writer, apiToken, exit,
                   refused, apiSent, apiResp, apiResult, uri, qresult, queue,
                   starts, out, qpc>>

\* variant: the credentials are checked before the authorization flow only
CheckArgumentsAuthorizeOnly(p) ==
    /\ pc[p] = "check_args"
    /\ LET missing_args == IF path[p] = "authorize"
                           THEN MissingArgs(impl, creds[p]) ELSE <<>>
       IN  IF missing_args # <<>>
           THEN /\ result' = [result EXCEPT ![p] = RaisedMissing(missing_args)]
                /\ pc' = [pc EXCEPT ![p] = "failed"]
           ELSE /\ result' = result
                /\ pc' = [pc EXCEPT ![p] =
                            IF path[p] = "refresh" THEN "refresh_req" ELSE "auth_url"]
    /\ UNCHANGED <<impl, now, file, args, env, creds, path, tokens, reqs,
                   urlShown, listener, query, resp, file0, calls,
                   inbox, handled, method, saved, writer, apiToken, exit,
                   refused, apiSent, apiResp, apiResult, uri, qresult, queue,
                   starts, out, qpc>>

\* self._check_arguments()
CheckArguments(p) ==
    /\ pc[p] = "check_args"
    /\ LET missing_args == MissingArgs(impl, creds[p])
       IN  IF missing_args # <<>>
           THEN /\ result' = [result EXCEPT ![p] = RaisedMissing(missing_args)]
                /\ pc' = [pc EXCEPT ![p] = "failed"]
           ELSE /\ result' = result
                /\ pc' = [pc EXCEPT ![p] =
                            IF path[p] = "refresh" THEN "refresh_req" ELSE "auth_url"]
    /\ UNCHANGED <<impl, now, file, args, env, creds, path, tokens, reqs,
                   urlShown, listener, query, resp, file0, calls,
                   inbox, handled, method, saved, writer, apiToken, exit,
                   refused, apiSent, apiResp, apiResult, uri, qresult, queue,
                   starts, out, qpc>>

\* new_tokens = self._refresh_access_token(tokens["refresh_token"]): the POST
RefreshRequest(p) ==
    /\ pc[p] = "refresh_req"
    /\ CASE impl # "base" ->
              \* src/spotli/authorization.py defines no _refresh_access_token
              /\ result' = [result EXCEPT ![p] = Raised("AttributeError")]
              /\ pc' = [pc EXCEPT ![p] = "failed"]
              /\ reqs' = reqs
         [] impl = "base" /\ "refresh_token" \notin DOMAIN tokens[p] ->
              /\ result' = [result EXCEPT ![p] = Raised("KeyError")]
              /\ pc' = [pc EXCEPT ![p] = "failed"]
              /\ reqs' = reqs
         [] OTHER ->
              /\ reqs' = [reqs EXCEPT ![p] =
                            Append(@, [grant_type |-> "refresh_token",
                                       value |-> tokens[p]["refresh_token"]])]
              /\ pc' = [pc EXCEPT ![p] = "refresh_wait"]
              /\ result' = result
    /\ UNCHANGED <<impl, now, file, args, env, creds, path, tokens, urlShown,
                   listener, query, resp, file0, calls,
                   inbox, handled, method, saved, writer, apiToken, exit,
                   refused, apiSent, apiResp, apiResult, uri, qresult, queue,
                   starts, out, qpc>>

\* click.echo(auth_url) (and webbrowser.open(auth_url) in the flat module)
PresentUrl(p) ==
    /\ pc[p] = "auth_url"
    /\ urlShown' = [urlShown EXCEPT ![p] = TRUE]
    /\ pc' = [pc EXCEPT ![p] = "bind"]
    /\ UNCHANGED <<impl, now, file, args, env, creds, path, tokens, reqs,
                   listener, result, query, resp, file0, calls,
                   inbox, handled, method, saved, writer, apiToken, exit,
                   refused, apiSent, apiResp, apiResult, uri, qresult, queue,
                   starts, out, qpc>>

\* server = HTTPServer(("localhost", port), CallbackHandler)
BindListener(p) ==
    /\ pc[p] = "bind"
    /\ \/ /\ listener' = [listener EXCEPT ![p] = "bound"]
          /\ pc' = [pc EXCEPT ![p] = "listen"]
          /\ result' = result
       \/ \* the port is already in use
          /\ listener' = listener
          /\ pc' = [pc EXCEPT ![p] = "failed"]
          /\ result' = [result EXCEPT ![p] = Raised("OSError")]
    /\ UNCHANGED <<impl, now, file, args, env, creds, path, tokens, reqs,
                   urlShown, query, resp, file0, calls,
                   inbox, handled, method, saved, writer, apiToken, exit,
                   refused, apiSent, apiResp, apiResult, uri, qresult, queue,
                   starts, out, qpc>>

\* variant: the handler reads another query parameter
QueryCodeWrongKey(q) == IF "error" \in DOMAIN q THEN q["error"] ELSE None

\* query.get("code", [None])[0]
QueryCode(q) == IF "code" \in DOMAIN q THEN q["code"] ELSE None

\* raise AuthorizationError(...): exceptions.AuthorizationError.__init__ takes
\* no argument, the flat module passes a message
RaiseAuthorizationError(i) ==
    IF i = "base" THEN "AuthorizationError" ELSE "TypeError"

\* a client connects to the redirect port once the user has the URL: while
\* the socket is open the kernel queues the connection until handle_request()
\* accepts it; while no socket is bound the connection is refused
BrowserRequest(p) ==
    /\ urlShown[p]
    /\ pc[p] \in {"bind", "listen", "exchange_wait", "save", "dump"}
    /\ IF listener[p] \in {"bound", "served"}
       THEN /\ Len(inbox[p]) + handled[p] < MaxRequests
            /\ \E r \in Requests : inbox' = [inbox EXCEPT ![p] = Append(@, r)]
            /\ refused' = refused
       ELSE /\ ~refused[p]
            /\ refused' = [refused EXCEPT ![p] = TRUE]
            /\ inbox' = inbox
    /\ UNCHANGED <<impl, now, file, args, env, creds, pc, path, tokens, reqs,
                   urlShown, listener, result, query, resp, file0, calls,
                   handled, method, saved, writer, apiToken, exit, apiSent,
                   apiResp, apiResult, uri, qresult, queue, starts, out, qpc>>

\* variant: handle_request() returns after a timeout
ReadyToHandleTimeout(p) == TRUE

\* server.handle_request() with timeout None returns once a request has been
\* handled
ReadyToHandle(p) == inbox[p] # <<>>

\* variant: the listener keeps serving until a request carries a code
CallbackUntilCode(p) ==
    /\ pc[p] = "listen"
    /\ inbox[p] # <<>>
    /\ inbox' = [inbox EXCEPT ![p] = Tail(@)]
    /\ handled' = [handled EXCEPT ![p] = @ + 1]
    /\ method' = [method EXCEPT ![p] = Head(inbox[p]).method]
    /\ listener' = [listener EXCEPT ![p] = "served"]
    /\ query' = [query EXCEPT ![p] = Head(inbox[p]).query]
    /\ IF Truthy(QueryCode(Head(inbox[p]).query))
       THEN /\ reqs' = [reqs EXCEPT ![p] =
                          Append(@, [grant_type |-> "authorization_code",
                                     value |-> QueryCode(Head(inbox[p]).query)])]
            /\ pc' = [pc EXCEPT ![p] = "exchange_wait"]
       ELSE UNCHANGED <<reqs, pc>>
    /\ UNCHANGED <<impl, now, file, args, env, creds, path, tokens, urlShown,
                   resp, result, file0, calls, saved, writer, apiToken, exit,
                   refused, apiSent, apiResp, apiResult, uri, qresult, queue,
                   starts, out, qpc>>

\* server.handle_request(); code = server.code; if not code: raise ...
Callback(p) ==
    /\ pc[p] = "listen"
    /\ ReadyToHandle(p)
    /\ IF inbox[p] = <<>> \/ Head(inbox[p]).method # "GET"
       THEN \* do_GET has not run: server.code was never assigned
            /\ result' = [result EXCEPT ![p] = Raised("AttributeError")]
            /\ pc' = [pc EXCEPT ![p] = "failed"]
            /\ UNCHANGED <<reqs, query>>
       ELSE /\ query' = [query EXCEPT ![p] = Head(inbox[p]).query]
            /\ IF ~Truthy(QueryCode(Head(inbox[p]).query))
               THEN /\ result' = [result EXCEPT ![p] =
                                    Raised(RaiseAuthorizationError(impl))]
                    /\ pc' = [pc EXCEPT ![p] = "failed"]
                    /\ reqs' = reqs
               ELSE \* tokens = self._request_access_token(code): the POST
                    /\ reqs' = [reqs EXCEPT ![p] =
                                  Append(@, [grant_type |-> "authorization_code",
                                             value |-> QueryCode(Head(inbox[p]).query)])]
                    /\ pc' = [pc EXCEPT ![p] = "exchange_wait"]
                    /\ result' = result
    /\ IF inbox[p] = <<>>
       THEN UNCHANGED <<inbox, handled, method, listener>>
       ELSE /\ inbox' = [inbox EXCEPT ![p] = Tail(@)]
            /\ handled' = [handled EXCEPT ![p] = @ + 1]
            /\ method' = [method EXCEPT ![p] = Head(inbox[p]).method]
            /\ listener' = [listener EXCEPT ![p] = "served"]
    /\ UNCHANGED <<impl, now, file, args, env, creds, path, tokens, urlShown,
                   resp, file0, calls, saved, writer, apiToken, exit,
                   refused, apiSent, apiResp, apiResult, uri, qresult, queue,
                   starts, out, qpc>>

\* variant: only server errors raise
RaisesForStatus5xx(st) == st >= 500 /\ st < 600

\* variant: only client errors raise
RaisesForStatus4xx(st) == st >= 400 /\ st < 500

\* response.raise_for_status()
RaisesForStatus(st) == st >= 400 /\ st < 600

\* what the token endpoint may answer to the request process p has sent
Answers(p) ==
    { [status |-> st, body |-> ErrorBody] : st \in { x \in Statuses : x >= 400 } }
    \cup { [status |-> st, body |-> NoData] :
             st \in { x \in Statuses : x >= 300 /\ x < 400 } }
    \cup { [status |-> 200, body |-> b] :
             b \in (IF pc[p] = "refresh_wait" THEN RespBodies ELSE ExchangeBodies) }

\* variant: a request answered with an error status is sent once more
TokenResponseRetry(p) ==
    /\ pc[p] \in {"refresh_wait", "exchange_wait"}
    /\ \E r \in Answers(p) :
          /\ resp' = [resp EXCEPT ![p] = r]
          /\ CASE RaisesForStatus(r.status) /\ Len(reqs[p]) < 2 ->
                    /\ reqs' = [reqs EXCEPT ![p] = Append(@, Head(@))]
                    /\ UNCHANGED <<result, pc, tokens>>
               [] RaisesForStatus(r.status) /\ Len(reqs[p]) >= 2 ->
                    /\ result' = [result EXCEPT ![p] = RaisedHTTP(r)]
                    /\ pc' = [pc EXCEPT ![p] = "failed"]
                    /\ UNCHANGED <<tokens, reqs>>
               [] ~RaisesForStatus(r.status) /\ DOMAIN r.body = {} ->
                    /\ result' = [result EXCEPT ![p] = Raised("JSONDecodeError")]
                    /\ pc' = [pc EXCEPT ![p] = "failed"]
                    /\ UNCHANGED <<tokens, reqs>>
               [] OTHER ->
                    /\ tokens' = [tokens EXCEPT ![p] =
                                     IF pc[p] = "refresh_wait"
                                     THEN DictUpdate(tokens[p], r.body)
                                     ELSE r.body]
                    /\ pc' = [pc EXCEPT ![p] = "save"]
                    /\ UNCHANGED <<result, reqs>>
    /\ UNCHANGED <<impl, now, file, args, env, creds, path, urlShown,
                   listener, query, file0, calls,
                   inbox, handled, method, saved, writer, apiToken, exit,
                   refused, apiSent, apiResp, apiResult, uri, qresult, queue,
                   starts, out, qpc>>

\* response = requests.post(TOKEN_URL, ...); response.raise_for_status();
\* return response.json(); in the refresh branch tokens.update(new_tokens)
TokenResponse(p) ==
    /\ pc[p] \in {"refresh_wait", "exchange_wait"}
    /\ \E r \in Answers(p) :
          /\ resp' = [resp EXCEPT ![p] = r]
          /\ CASE RaisesForStatus(r.status) ->
                    /\ result' = [result EXCEPT ![p] = RaisedHTTP(r)]
                    /\ pc' = [pc EXCEPT ![p] = "failed"]
                    /\ tokens' = tokens
               [] ~RaisesForStatus(r.status) /\ DOMAIN r.body = {} ->
                    \* response.json() of an answer without a JSON body
                    /\ result' = [result EXCEPT ![p] = Raised("JSONDecodeError")]
                    /\ pc' = [pc EXCEPT ![p] = "failed"]
                    /\ tokens' = tokens
               [] OTHER ->
                    /\ tokens' = [tokens EXCEPT ![p] =
                                     IF pc[p] = "refresh_wait"
                                     THEN DictUpdate(tokens[p], r.body)
                                     ELSE r.body]
                    /\ pc' = [pc EXCEPT ![p] = "save"]
                    /\ result' = result
    /\ UNCHANGED <<impl, now, file, args, env, creds, path, reqs, urlShown,
                   listener, query, file0, calls,
                   inbox, handled, method, saved, writer, apiToken, exit,
                   refused, apiSent, apiResp, apiResult, uri, qresult, queue,
                   starts, out, qpc>>

\* what the file holds after process p has written d at offset 0 of the
\* descriptor it opened in SaveOpen: its own document if the file is still
\* empty; if another process has written since, the bytes of the other
\* document that lie beyond the end of d stay in the file
Written(f, d) ==
    IF f.state = "empty" THEN {Json(d)} ELSE {Json(d), Garbage}

\* variant: an expires_at that the record already has is kept
SaveOpenKeep(p) ==
    /\ pc[p] = "save"
    /\ IF "expires_in" \in DOMAIN tokens[p]
       THEN /\ tokens' = [tokens EXCEPT ![p] =
                            IF "expires_at" \in DOMAIN @ THEN @
                            ELSE SetItem(@, "expires_at",
                                         Strftime(now + Timedelta(tokens[p]["expires_in"])))]
            /\ file' = Truncated
            /\ saved' = [done |-> TRUE, arg |-> tokens[p], at |-> now]
            /\ pc' = [pc EXCEPT ![p] = "dump"]
            /\ result' = result
       ELSE /\ result' = [result EXCEPT ![p] = Raised("KeyError")]
            /\ pc' = [pc EXCEPT ![p] = "failed"]
            /\ UNCHANGED <<tokens, file, saved>>
    /\ UNCHANGED <<impl, now, args, env, creds, path, reqs, urlShown,
                   listener, query, resp, file0, calls, inbox, handled, method,
                   writer, apiToken, exit, refused, apiSent, apiResp,
                   apiResult, uri, qresult, queue, starts, out, qpc>>

\* _save_tokens, first half: tokens["expires_at"] = ...; open(TOKEN_PATH, "w")
SaveOpen(p) ==
    /\ pc[p] = "save"
    /\ IF "expires_in" \in DOMAIN tokens[p]
       THEN /\ tokens' = [tokens EXCEPT ![p] =
                            SetItem(@, "expires_at",
                                    Strftime(now + Timedelta(tokens[p]["expires_in"])))]
            /\ file' = Truncated
            /\ saved' = [done |-> TRUE, arg |-> tokens[p], at |-> now]
            /\ pc' = [pc EXCEPT ![p] = "dump"]
            /\ result' = result
       ELSE \* tokens["expires_in"] of a dict without that key
            /\ result' = [result EXCEPT ![p] = Raised("KeyError")]
            /\ pc' = [pc EXCEPT ![p] = "failed"]
            /\ UNCHANGED <<tokens, file, saved>>
    /\ UNCHANGED <<impl, now, args, env, creds, path, reqs, urlShown,
                   listener, query, resp, file0, calls, inbox, handled, method,
                   writer, apiToken, exit, refused, apiSent, apiResp,
                   apiResult, uri, qresult, queue, starts, out, qpc>>

\* _save_tokens, second half: json.dump(tokens, f); then
\* return tokens["access_token"]
SaveDump(p) ==
    /\ pc[p] = "dump"
    /\ \E f \in Written(file, tokens[p]) : file' = f
    /\ writer' = p
    /\ pc' = [pc EXCEPT ![p] = IF "access_token" \in DOMAIN tokens[p]
                               THEN "done" ELSE "failed"]
    /\ result' = [result EXCEPT ![p] =
                    IF "access_token" \in DOMAIN tokens[p]
                    THEN Returned(tokens[p]["access_token"])
                    ELSE Raised("KeyError")]
    /\ UNCHANGED <<impl, now, args, env, creds, path, tokens, reqs, urlShown,
                   listener, query, resp, file0, calls,
                   inbox, handled, method, saved, apiToken, exit, refused,
                   apiSent, apiResp, apiResult, uri, qresult, queue, starts,
                   out, qpc>>

\* the user presses Ctrl-C while the call waits for the browser or for the
\* token endpoint: KeyboardInterrupt is raised inside get_access_token()
Interrupt(p) ==
    /\ pc[p] \in {"listen", "refresh_wait", "exchange_wait"}
    /\ pc' = [pc EXCEPT ![p] = "failed"]
    /\ result' = [result EXCEPT ![p] = Raised("KeyboardInterrupt")]
    /\ UNCHANGED <<impl, now, file, args, env, creds, path, tokens, reqs,
                   urlShown, listener, query, resp, file0, calls,
                   inbox, handled, method, saved, writer, apiToken, exit,
                   refused, apiSent, apiResp, apiResult, uri, qresult, queue,
                   starts, out, qpc>>

\* variant: the interrupt is re-raised like any other exception
AuthExitReraise(p) ==
    /\ pc[p] \in {"done", "failed"}
    /\ ~exit[p].done
    /\ exit' = [exit EXCEPT ![p] =
                  CASE result[p].kind = "return" -> Exited(<<>>)
                    [] result[p].exc = "MissingRequiredArgumentsError" ->
                         Exited(<<Echo("Missing required user credentials")>>
                                \o [n \in 1..Len(result[p].missing) |->
                                       Secho(result[p].missing[n])])
                    [] OTHER -> Uncaught(result[p].exc)]
    /\ UNCHANGED <<impl, now, file, args, env, creds, pc, path, tokens, reqs,
                   urlShown, listener, result, query, resp, file0, calls,
                   inbox, handled, method, saved, writer, apiToken, refused,
                   apiSent, apiResp, apiResult, uri, qresult, queue, starts,
                   out, qpc>>

\* the try statement of the auth command around get_access_token():
\* except KeyboardInterrupt: raise click.Abort();
\* except MissingRequiredArgumentsError: echo the list; except Exception: raise
AuthExit(p) ==
    /\ pc[p] \in {"done", "failed"}
    /\ ~exit[p].done
    /\ exit' = [exit EXCEPT ![p] =
                  CASE result[p].kind = "return" -> Exited(<<>>)
                    [] result[p].exc = "KeyboardInterrupt" -> Aborted
                    [] result[p].exc = "MissingRequiredArgumentsError" ->
                         Exited(<<Echo("Missing required user credentials")>>
                                \o [n \in 1..Len(result[p].missing) |->
                                       Secho(result[p].missing[n])])
                    [] OTHER -> Uncaught(result[p].exc)]
    /\ UNCHANGED <<impl, now, file, args, env, creds, pc, path, tokens, reqs,
                   urlShown, listener, result, query, resp, file0, calls,
                   inbox, handled, method, saved, writer, apiToken, refused,
                   apiSent, apiResp, apiResult, uri, qresult, queue, starts,
                   out, qpc>>

\* the wall clock advances
Tick ==
    /\ now < MaxTime
    /\ now' = now + 1
    /\ UNCHANGED <<impl, file, args, env, creds, pc, path, tokens, reqs,
                   urlShown, listener, result, query, resp, file0, calls,
                   inbox, handled, method, saved, writer, apiToken, exit,
                   refused, apiSent, apiResp, apiResult, uri, qresult, queue,
                   starts, out, qpc>>

Next ==
    \/ \E p \in Procs : Invoke(p)
    \/ \E p \in Procs : Construct(p)
    \/ \E p \in Procs : LoadTokens(p)
    \/ \E p \in Procs : CheckExpiry(p)
    \/ \E p \in Procs : CheckArguments(p)
    \/ \E p \in Procs : RefreshRequest(p)
    \/ \E p \in Procs : PresentUrl(p)
    \/ \E p \in Procs : BindListener(p)
    \/ \E p \in Procs : BrowserRequest(p)
    \/ \E p \in Procs : Callback(p)
    \/ \E p \in Procs : TokenResponse(p)
    \/ \E p \in Procs : SaveOpen(p)
    \/ \E p \in Procs : SaveDump(p)
    \/ \E p \in Procs : Interrupt(p)
    \/ \E p \in Procs : AuthExit(p)
    \/ Tick

Spec == Init /\ [][Next]_vars

-----------------------------------------------------------------------------
(* Credential resolution over every combination of options and environment *)

InitCred ==
    /\ impl \in Impls
    /\ now = 0
    /\ file = Absent
    /\ args \in { [p \in Procs |-> IF p = 1 THEN a ELSE NoCreds] : a \in AllArgs }
    /\ env \in { [p \in Procs |-> IF p = 1 THEN e ELSE NoCreds] : e \in AllEnvs }
    /\ creds = [p \in Procs |-> NoCreds]
    /\ pc = [p \in Procs |-> IF p = 1 THEN "new" ELSE "off"]
    /\ path = [p \in Procs |-> "none"]
    /\ tokens = [p \in Procs |-> NoData]
    /\ reqs = [p \in Procs |-> <<>>]
    /\ urlShown = [p \in Procs |-> FALSE]
    /\ listener = [p \in Procs |-> "none"]
    /\ query = [p \in Procs |-> NoData]
    /\ resp = [p \in Procs |-> NoResp]
    /\ result = [p \in Procs |-> NoResult]
    /\ file0 = [p \in Procs |-> file]
    /\ calls = [p \in Procs |-> IF p = 1 THEN 1 ELSE 0]
    /\ inbox = [p \in Procs |-> <<>>]
    /\ handled = [p \in Procs |-> 0]
    /\ method = [p \in Procs |-> ""]
    /\ saved = NoSave
    /\ writer = 0
    /\ apiToken = NoResult
    /\ exit = [p \in Procs |-> NoExit]
    /\ refused = [p \in Procs |-> FALSE]
    /\ apiSent = <<>>
    /\ apiResp = NoResp
    /\ apiResult = NoResult
    /\ uri = None
    /\ qresult = <<>>
    /\ queue = <<>>
    /\ starts = 0
    /\ out = <<>>
    /\ qpc = "off"

NextCred ==
    \/ \E p \in Procs : Construct(p)
    \/ \E p \in Procs : LoadTokens(p)
    \/ \E p \in Procs : CheckArguments(p)

SpecCred == InitCred /\ [][NextCred]_vars

-----------------------------------------------------------------------------
(* Two invocations and a player command at the same time, on an expired
   token file *)

\* variant: the client refuses a stored token that has expired
ApiLoadTokensChecked ==
    /\ apiToken = NoResult
    /\ apiToken' =
          CASE file.state = "absent" -> Raised("MissingApiTokenError")
            [] file.state = "json" /\ "expires_at" \in DOMAIN file.data
                  /\ Expired(file.data["expires_at"], now) ->
                 Raised("UnauthorizedError")
            [] file.state = "json" ->
                 Returned(IF "access_token" \in DOMAIN file.data
                          THEN file.data["access_token"] ELSE None)
            [] OTHER -> Raised("JSONDecodeError")
    /\ UNCHANGED <<impl, now, file, args, env, creds, pc, path, tokens, reqs,
                   urlShown, listener, query, resp, result, file0, calls,
                   inbox, handled, method, saved, writer, exit, refused,
                   apiSent, apiResp, apiResult, uri, qresult, queue, starts,
                   out, qpc>>

\* SpotifyAPI.__init__: self.access_token = self._load_tokens()
ApiLoadTokens ==
    /\ apiToken = NoResult
    /\ apiToken' =
          CASE file.state = "absent" -> Raised("MissingApiTokenError")
            [] file.state = "json" ->
                 Returned(IF "access_token" \in DOMAIN file.data
                          THEN file.data["access_token"] ELSE None)
            [] OTHER -> Raised("JSONDecodeError")
    /\ UNCHANGED <<impl, now, file, args, env, creds, pc, path, tokens, reqs,
                   urlShown, listener, query, resp, result, file0, calls,
                   inbox, handled, method, saved, writer, exit, refused,
                   apiSent, apiResp, apiResult, uri, qresult, queue, starts,
                   out, qpc>>

InitConc ==
    /\ impl \in Impls
    /\ now = MaxTime
    /\ file = Json(StoredRecord)
    /\ args = [p \in Procs |-> [f \in FieldSet |-> "x"]]
    /\ env = [p \in Procs |-> NoCreds]
    /\ creds = [p \in Procs |-> NoCreds]
    /\ pc = [p \in Procs |-> "new"]
    /\ path = [p \in Procs |-> "none"]
    /\ tokens = [p \in Procs |-> NoData]
    /\ reqs = [p \in Procs |-> <<>>]
    /\ urlShown = [p \in Procs |-> FALSE]
    /\ listener = [p \in Procs |-> "none"]
    /\ query = [p \in Procs |-> NoData]
    /\ resp = [p \in Procs |-> NoResp]
    /\ result = [p \in Procs |-> NoResult]
    /\ file0 = [p \in Procs |-> file]
    /\ calls = [p \in Procs |-> 1]
    /\ inbox = [p \in Procs |-> <<>>]
    /\ handled = [p \in Procs |-> 0]
    /\ method = [p \in Procs |-> ""]
    /\ saved = NoSave
    /\ writer = 0
    /\ apiToken = NoResult
    /\ exit = [p \in Procs |-> NoExit]
    /\ refused = [p \in Procs |-> FALSE]
    /\ apiSent = <<>>
    /\ apiResp = NoResp
    /\ apiResult = NoResult
    /\ uri = None
    /\ qresult = <<>>
    /\ queue = <<>>
    /\ starts = 0
    /\ out = <<>>
    /\ qpc = "off"

NextConc ==
    \/ \E p \in Procs : Construct(p)
    \/ \E p \in Procs : LoadTokens(p)
    \/ \E p \in Procs : CheckExpiry(p)
    \/ \E p \in Procs : CheckArguments(p)
    \/ \E p \in Procs : RefreshRequest(p)
    \/ \E p \in Procs : TokenResponse(p)
    \/ \E p \in Procs : SaveOpen(p)
    \/ \E p \in Procs : SaveDump(p)
    \/ ApiLoadTokens

SpecConc == InitConc /\ [][NextConc]_vars

-----------------------------------------------------------------------------
(* The Web API client of the player commands *)

MaxApiRequests == 2

\* status codes the Web API answers with; 418 stands for the statuses that
\* no case of the match statement names
ApiStatuses == {200, 201, 202, 204, 400, 401, 403, 404, 429, 500, 502, 503, 418}

\* bodies of the answers: a JSON document for a successful request, the error
\* object that SpotliAPIException reads, the error object with a message
\* field, or a body that is no JSON document
Payload == [item |-> "track"]
ErrorFull(st) == [error |-> [status |-> st, error_description |-> "d"]]
ErrorMessage(st) == [error |-> [status |-> st, message |-> "m"]]

ApiAnswers ==
    { [status |-> 200, body |-> b] : b \in {Payload, NoData} }
    \cup { [status |-> st, body |-> NoData] : st \in {201, 202, 204} }
    \cup UNION { { [status |-> st, body |-> b] :
                      b \in {ErrorFull(st), ErrorMessage(st), NoData} } :
                    st \in { x \in ApiStatuses : x >= 400 } }

\* raise cls(response.json()): response.json() is evaluated first;
\* BadRequestError.__init__(self, status, response_message) gets one argument;
\* SpotliAPIException.__init__ reads response['error']['status'] and
\* response['error']['error_description']
ApiRaise(cls, body) ==
    CASE DOMAIN body = {} -> Raised("JSONDecodeError")
      [] DOMAIN body # {} /\ cls = "BadRequestError" -> Raised("TypeError")
      [] DOMAIN body # {} /\ cls # "BadRequestError"
            /\ ~({"status", "error_description"} \subseteq DOMAIN body["error"]) ->
           Raised("KeyError")
      [] OTHER -> Raised(cls)

\* match response.status_code: ...
Request(i, r) ==
    CASE r.status = 200 ->
           IF DOMAIN r.body # {} THEN Returned(r.body)
           ELSE IF i = "base" THEN Returned("<content>")
           ELSE Raised("JSONDecodeError")
      [] r.status \in {201, 202, 204} -> Returned(None)
      [] r.status = 400 -> ApiRaise("BadRequestError", r.body)
      [] r.status = 401 -> ApiRaise("UnauthorizedError", r.body)
      [] r.status = 403 -> ApiRaise("ForbiddenError", r.body)
      [] r.status = 404 -> ApiRaise("NotFoundError", r.body)
      [] r.status = 429 -> ApiRaise("RateLimitError", r.body)
      [] r.status \in {500, 502, 503} -> ApiRaise("InternalServerError", r.body)
      [] OTHER -> ApiRaise("SpotliAPIException", r.body)

\* self.spotify_api.get/post/put(...): one call of SpotifyAPI._request
ApiRequest ==
    /\ apiToken.kind = "return"
    /\ Len(apiSent) < MaxApiRequests
    /\ apiSent' = Append(apiSent, apiToken.value)
    /\ \E r \in ApiAnswers :
          /\ apiResp' = r
          /\ apiResult' = Request(impl, r)
    /\ UNCHANGED <<impl, now, file, args, env, creds, pc, path, tokens, reqs,
                   urlShown, listener, query, resp, result, file0, calls,
                   inbox, handled, method, saved, writer, apiToken, exit,
                   refused, uri, qresult, queue, starts, out, qpc>>

\* a player command starts: the token file is whatever earlier auth commands
\* have left, the stored token is expired or not
InitApi ==
    /\ impl \in Impls
    /\ now \in {0, MaxTime}
    /\ file \in {Absent, Json(StoredRecord), Garbage}
    /\ args = [p \in Procs |-> NoCreds]
    /\ env = [p \in Procs |-> NoCreds]
    /\ creds = [p \in Procs |-> NoCreds]
    /\ pc = [p \in Procs |-> "off"]
    /\ path = [p \in Procs |-> "none"]
    /\ tokens = [p \in Procs |-> NoData]
    /\ reqs = [p \in Procs |-> <<>>]
    /\ urlShown = [p \in Procs |-> FALSE]
    /\ listener = [p \in Procs |-> "none"]
    /\ query = [p \in Procs |-> NoData]
    /\ resp = [p \in Procs |-> NoResp]
    /\ result = [p \in Procs |-> NoResult]
    /\ file0 = [p \in Procs |-> file]
    /\ calls = [p \in Procs |-> 0]
    /\ inbox = [p \in Procs |-> <<>>]
    /\ handled = [p \in Procs |-> 0]
    /\ method = [p \in Procs |-> ""]
    /\ saved = NoSave
    /\ writer = 0
    /\ apiToken = NoResult
    /\ exit = [p \in Procs |-> NoExit]
    /\ refused = [p \in Procs |-> FALSE]
    /\ apiSent = <<>>
    /\ apiResp = NoResp
    /\ apiResult = NoResult
    /\ uri = None
    /\ qresult = <<>>
    /\ queue = <<>>
    /\ starts = 0
    /\ out = <<>>
    /\ qpc = "off"

NextApi ==
    \/ ApiLoadTokens
    \/ ApiRequest

SpecApi == InitApi /\ [][NextApi]_vars

-----------------------------------------------------------------------------
(* One interactive authorization flow, with the progress the code makes *)

InitFlow ==
    /\ impl \in Impls
    /\ now = 0
    /\ file = Absent
    /\ args = [p \in Procs |-> IF p = 1 THEN [f \in FieldSet |-> "x"] ELSE NoCreds]
    /\ env = [p \in Procs |-> NoCreds]
    /\ creds = [p \in Procs |-> NoCreds]
    /\ pc = [p \in Procs |-> IF p = 1 THEN "new" ELSE "off"]
    /\ path = [p \in Procs |-> "none"]
    /\ tokens = [p \in Procs |-> NoData]
    /\ reqs = [p \in Procs |-> <<>>]
    /\ urlShown = [p \in Procs |-> FALSE]
    /\ listener = [p \in Procs |-> "none"]
    /\ query = [p \in Procs |-> NoData]
    /\ resp = [p \in Procs |-> NoResp]
    /\ result = [p \in Procs |-> NoResult]
    /\ file0 = [p \in Procs |-> file]
    /\ calls = [p \in Procs |-> IF p = 1 THEN 1 ELSE 0]
    /\ inbox = [p \in Procs |-> <<>>]
    /\ handled = [p \in Procs |-> 0]
    /\ method = [p \in Procs |-> ""]
    /\ saved = NoSave
    /\ writer = 0
    /\ apiToken = NoResult
    /\ exit = [p \in Procs |-> NoExit]
    /\ refused = [p \in Procs |-> FALSE]
    /\ apiSent = <<>>
    /\ apiResp = NoResp
    /\ apiResult = NoResult
    /\ uri = None
    /\ qresult = <<>>
    /\ queue = <<>>
    /\ starts = 0
    /\ out = <<>>
    /\ qpc = "off"

NextFlow ==
    \/ \E p \in Procs : Construct(p)
    \/ \E p \in Procs : LoadTokens(p)
    \/ \E p \in Procs : CheckArguments(p)
    \/ \E p \in Procs : PresentUrl(p)
    \/ \E p \in Procs : BindListener(p)
    \/ \E p \in Procs : BrowserRequest(p)
    \/ \E p \in Procs : Callback(p)
    \/ \E p \in Procs : TokenResponse(p)
    \/ \E p \in Procs : SaveOpen(p)
    \/ \E p \in Procs : SaveDump(p)
    \/ \E p \in Procs : Interrupt(p)
    \/ Tick

\* the interpreter runs the statements of the call one after the other, so a
\* step of the process that can be taken is taken; requests.post returns once
\* the token endpoint has answered. No client is obliged to connect to the
\* loopback port: BrowserRequest carries no fairness.
FlowProgress ==
    \A p \in Procs :
        /\ WF_vars(Callback(p))
        /\ WF_vars(TokenResponse(p))
        /\ WF_vars(SaveOpen(p))
        /\ WF_vars(SaveDump(p))

SpecFlow == InitFlow /\ [][NextFlow]_vars /\ FlowProgress

-----------------------------------------------------------------------------
(* The queue command of the player (the same code in src/spotli/cli.py and  *)
(* in src/spotli/player/commands.py)                                        *)

MaxQueue == 9

\* names of tracks; a queue may hold the same track more than once
TrackNames == {"a", "b"}

\* what player.queue() may return: a falsy value, or the currently playing
\* track followed by the queued tracks
QueueResults ==
    {<<>>} \cup UNION { [1..n -> TrackNames] : n \in 1..(MaxQueue + 1) }

\* the answers the user may type at the prompt
PromptAnswers == {"y", "n", "Y"}

\* range(5)
PageSize == 5

\* starts += 5
StartsStep == 5

\* the variables the queue command does not touch
authVars == <<impl, now, file, args, env, creds, pc, path, tokens, reqs,
              urlShown, listener, query, resp, result, file0, calls, inbox,
              handled, method, saved, writer, apiToken, exit, refused,
              apiSent, apiResp, apiResult>>

\* click.echo(result), click.echo("No active device found")
TextLine(t) == [kind |-> "text", n |-> 0, text |-> t]

\* click.echo(f"-> {current}")
CurrentLine(t) == [kind |-> "current", n |-> 0, text |-> t]

\* click.echo(f" ({idx}) {track}")
TrackLine(idx, t) == [kind |-> "track", n |-> idx, text |-> t]

\* click.echo("(more)")
MoreLine == [kind |-> "more", n |-> 0, text |-> "(more)"]

\* click.prompt("Do you want to continue? (y/n)", type=str) and what is typed
PromptLine(a) == [kind |-> "prompt", n |-> 0, text |-> a]

\* click.echo("\033[F\033[K" * 7, nl=False)
EraseLine == [kind |-> "erase", n |-> 0, text |-> ""]

\* variant: the track is read with queue[i] and stays in the list
PopPeek(q, i) == q

\* queue.pop(i), i counted from 0: the list without its element at index i
Pop(q, i) == SubSeq(q, 1, i) \o SubSeq(q, i + 2, Len(q))

\* for idx, i in enumerate(range(5), start=starts):
\*     try: click.echo(f" ({idx}) {queue.pop(i)}")
\*     except IndexError: break
\* from iteration i on, with the list q and the lines echoed so far; broke
\* tells whether the loop was left by break (the else clause is skipped)
RECURSIVE ForLoop(_, _, _, _)
ForLoop(q, i, s, lines) ==
    IF i = PageSize
    THEN [queue |-> q, lines |-> lines, broke |-> FALSE]
    ELSE IF i >= Len(q)
    THEN [queue |-> q, lines |-> lines, broke |-> TRUE]
    ELSE ForLoop(Pop(q, i), i + 1, s,
                 Append(lines, TrackLine(s + i, q[i + 1])))

\* the command up to the while loop
QueueStart ==
    /\ qpc = "start"
    /\ IF qresult = <<>>
       THEN /\ out' = <<TextLine("No active device found")>>
            /\ qpc' = "done"
            /\ UNCHANGED <<queue, starts>>
       ELSE IF uri # None
       THEN \* result = player.add_queue(uri, id); click.echo(result)
            /\ out' = <<TextLine("Added to queue")>>
            /\ qpc' = "done"
            /\ UNCHANGED <<queue, starts>>
       ELSE /\ queue' = Tail(qresult)
            /\ out' = <<CurrentLine(Head(qresult))>>
            /\ starts' = 1
            /\ qpc' = "loop"
    /\ UNCHANGED <<uri, qresult>>
    /\ UNCHANGED authVars

\* while queue: one pass of the for loop, up to the prompt of its else clause
QueuePass ==
    /\ qpc = "loop"
    /\ IF queue = <<>>
       THEN /\ qpc' = "done"
            /\ UNCHANGED <<queue, out>>
       ELSE LET r == ForLoop(queue, 0, starts, <<>>)
            IN  /\ queue' = r.queue
                /\ out' = out \o r.lines
                              \o (IF r.broke THEN <<>> ELSE <<MoreLine>>)
                /\ qpc' = IF r.broke THEN "loop" ELSE "prompt"
    /\ UNCHANGED <<uri, qresult, starts>>
    /\ UNCHANGED authVars

\* the user answers the prompt: "y" goes on with the next page, anything
\* else raises click.Abort
QueuePrompt ==
    /\ qpc = "prompt"
    /\ \E a \in PromptAnswers :
          IF "y" = a
          THEN /\ starts' = starts + StartsStep
               /\ out' = out \o <<PromptLine(a), EraseLine>>
               /\ qpc' = "loop"
          ELSE /\ out' = out \o <<PromptLine(a), TextLine("Aborted!")>>
               /\ qpc' = "aborted"
               /\ starts' = starts
    /\ UNCHANGED <<uri, qresult, queue>>
    /\ UNCHANGED authVars

\* the command is run with or without a URI, on whatever the player reports
InitQueue ==
    /\ impl \in Impls
    /\ now = 0
    /\ file = Json(StoredRecord)
    /\ args = [p \in Procs |-> NoCreds]
    /\ env = [p \in Procs |-> NoCreds]
    /\ creds = [p \in Procs |-> NoCreds]
    /\ pc = [p \in Procs |-> "off"]
    /\ path = [p \in Procs |-> "none"]
    /\ tokens = [p \in Procs |-> NoData]
    /\ reqs = [p \in Procs |-> <<>>]
    /\ urlShown = [p \in Procs |-> FALSE]
    /\ listener = [p \in Procs |-> "none"]
    /\ query = [p \in Procs |-> NoData]
    /\ resp = [p \in Procs |-> NoResp]
    /\ result = [p \in Procs |-> NoResult]
    /\ file0 = [p \in Procs |-> file]
    /\ calls = [p \in Procs |-> 0]
    /\ inbox = [p \in Procs |-> <<>>]
    /\ handled = [p \in Procs |-> 0]
    /\ method = [p \in Procs |-> ""]
    /\ saved = NoSave
    /\ writer = 0
    /\ apiToken = NoResult
    /\ exit = [p \in Procs |-> NoExit]
    /\ refused = [p \in Procs |-> FALSE]
    /\ apiSent = <<>>
    /\ apiResp = NoResp
    /\ apiResult = NoResult
    /\ uri \in {None, "spotify:track:1"}
    /\ qresult \in QueueResults
    /\ queue = <<>>
    /\ starts = 0
    /\ out = <<>>
    /\ qpc = "start"

NextQueue ==
    \/ QueueStart
    \/ QueuePass
    \/ QueuePrompt

\* the interpreter runs the statements of the command one after the other;
\* click.prompt returns once the user has typed an answer
QueueProgress ==
    /\ WF_vars(QueueStart)
    /\ WF_vars(QueuePass)
    /\ WF_vars(QueuePrompt)

SpecQueue == InitQueue /\ [][NextQueue]_vars /\ QueueProgress

-----------------------------------------------------------------------------
(* Properties *)

\* every credential is set and non-empty
Complete(c) == \A f \in FieldSet : c[f] \notin {None, ""}

\* the fields of record d other than expires_at
PlainKeys(d) == (DOMAIN d) \ {"expires_at"}

\* C1: when the stored record's expires_at is not before the current time,
\* get_access_token() returns the stored access_token, sends no request to
\* the token endpoint, starts no listener and leaves the token file as it was.
C1_ValidTokenNoEffect ==
    [][\A p \in Procs :
          ( /\ pc[p] = "expiry"
            /\ pc'[p] # "expiry"
            /\ tokens[p]["expires_at"] * TicksPerSec >= now )
          => /\ pc'[p] = "done"
             /\ result'[p].kind = "return"
             /\ result'[p].value = file0[p].data["access_token"]
             /\ reqs'[p] = <<>>
             /\ listener'[p] = "none"
             /\ ~urlShown'[p]
             /\ file' = file0[p]]_vars

C1_Witness ==
    \E p \in Procs :
        /\ pc[p] = "done"
        /\ path[p] = "valid"
        /\ file.state = "json"
        /\ file.data["expires_at"] * TicksPerSec > now
        /\ result[p].kind = "return"
        /\ result[p].value = "A0"
        /\ reqs[p] = <<>>

\* C2 (as stated): with an expired stored record and complete credentials the
\* call sends exactly one refresh_token request carrying the stored
\* refresh_token, never shows the URL or binds the listener, and on return has
\* persisted the merged record and returned the access_token of the response.
C2_RefreshOnExpired ==
    \A p \in Procs :
        ( /\ path[p] = "refresh"
          /\ Complete(creds[p])
          /\ pc[p] \in {"refresh_wait", "save", "dump", "done", "failed"} )
        => /\ reqs[p] = <<[grant_type |-> "refresh_token",
                           value |-> file0[p].data["refresh_token"]]>>
           /\ listener[p] = "none"
           /\ ~urlShown[p]
           /\ pc[p] = "done" =>
                /\ file = Json(tokens[p])
                /\ \A k \in PlainKeys(resp[p].body) :
                      file.data[k] = resp[p].body[k]
                /\ \A k \in PlainKeys(file0[p].data) \ DOMAIN resp[p].body :
                      file.data[k] = file0[p].data[k]
                /\ result[p].kind = "return"
                /\ result[p].value = resp[p].body["access_token"]

\* C3 (as stated): after a successful refresh every field of the response,
\* refresh_token included, overwrites the stored field, and every stored field
\* missing from the response keeps its old value.
C3_MergeLawAllFields ==
    \A p \in Procs :
        (path[p] = "refresh" /\ pc[p] = "done")
        => /\ file.state = "json"
           /\ \A k \in DOMAIN resp[p].body :
                 k \in DOMAIN file.data /\ file.data[k] = resp[p].body[k]
           /\ \A k \in (DOMAIN file0[p].data) \ (DOMAIN resp[p].body) :
                 k \in DOMAIN file.data /\ file.data[k] = file0[p].data[k]

\* C3 (amended): after a successful refresh the persisted refresh_token is the
\* stored one when the response omits refresh_token and the provider's when it
\* has one; every other field except expires_at is the response's when the
\* response has it and the old value otherwise.
C3_MergeLaw ==
    \A p \in Procs :
        (path[p] = "refresh" /\ pc[p] = "done")
        => /\ file.state = "json"
           /\ "refresh_token" \in DOMAIN file.data
           /\ file.data["refresh_token"] =
                 IF "refresh_token" \in DOMAIN resp[p].body
                 THEN resp[p].body["refresh_token"]
                 ELSE file0[p].data["refresh_token"]
           /\ \A k \in PlainKeys(resp[p].body) :
                 k \in DOMAIN file.data /\ file.data[k] = resp[p].body[k]
           /\ \A k \in PlainKeys(file0[p].data) \ (DOMAIN resp[p].body) :
                 k \in DOMAIN file.data /\ file.data[k] = file0[p].data[k]

C3_Witness ==
    \E p \in Procs :
        /\ path[p] = "refresh"
        /\ pc[p] = "done"
        /\ "refresh_token" \notin DOMAIN resp[p].body
        /\ "scope" \notin DOMAIN resp[p].body
        /\ file.data["refresh_token"] = "R0"
        /\ file.data["scope"] = "s0"
        /\ file.data["access_token"] = "A1"

\* C4: a stored token is treated as expired exactly when expires_at is
\* strictly before the current time: equal to now returns without a request,
\* one tick before now goes to the refresh branch.
C4_ExpiryTieBreak ==
    [][\A p \in Procs :
          (pc[p] = "expiry" /\ pc'[p] # "expiry")
          => /\ (tokens[p]["expires_at"] * TicksPerSec < now)
                  <=> (path'[p] = "refresh" /\ pc'[p] = "check_args")
             /\ (tokens[p]["expires_at"] * TicksPerSec >= now)
                  <=> (path'[p] = "valid" /\ pc'[p] = "done" /\ reqs'[p] = <<>>)]_vars

C4_Witness ==
    \E p \in Procs :
        /\ pc[p] = "done"
        /\ path[p] = "valid"
        /\ tokens[p]["expires_at"] * TicksPerSec = now
        /\ reqs[p] = <<>>

\* C5: with no stored record and a credential missing the call fails with
\* MissingRequiredArgumentsError before the URL is shown, before the listener
\* is bound and before any request; the token file stays absent.
C5_MissingCredsNoFlow ==
    \A p \in Procs :
        ( /\ file0[p].state = "absent"
          /\ pc[p] \notin {"off", "idle", "new", "load", "check_args"}
          /\ ~Complete(creds[p]) )
        => /\ pc[p] = "failed"
           /\ result[p].kind = "raise"
           /\ result[p].exc = "MissingRequiredArgumentsError"
           /\ ~urlShown[p]
           /\ listener[p] = "none"
           /\ reqs[p] = <<>>
           /\ file = Absent

C5_Witness ==
    \E p \in Procs :
        /\ file0[p].state = "absent"
        /\ pc[p] = "failed"
        /\ creds[p]["client_id"] = "x"
        /\ creds[p]["redirect_uri"] = None
        /\ result[p].exc = "MissingRequiredArgumentsError"
        /\ file = Absent

\* C6: with no stored record, complete credentials and a callback carrying
\* code=C, the code exchange is requested with exactly C, the response is
\* persisted as the token record and its access_token is returned.
C6_CodeExchange ==
    \A p \in Procs :
        ( /\ file0[p].state = "absent"
          /\ Complete(creds[p])
          /\ listener[p] = "served"
          /\ "code" \in DOMAIN query[p] )
        => /\ pc[p] \in {"exchange_wait", "save", "dump", "done", "failed"}
           /\ reqs[p] = <<[grant_type |-> "authorization_code",
                           value |-> query[p]["code"]]>>
           /\ pc[p] = "failed" =>
                result[p].exc \in {"HTTPError", "JSONDecodeError", "KeyboardInterrupt"}
           /\ pc[p] = "done" =>
                /\ file.state = "json"
                /\ DOMAIN file.data = (DOMAIN resp[p].body) \cup {"expires_at"}
                /\ \A k \in PlainKeys(resp[p].body) :
                      file.data[k] = resp[p].body[k]
                /\ result[p].kind = "return"
                /\ result[p].value = resp[p].body["access_token"]

C6_Witness ==
    \E p \in Procs :
        /\ file0[p].state = "absent"
        /\ pc[p] = "done"
        /\ path[p] = "authorize"
        /\ query[p] = [code |-> "ABC123"]
        /\ reqs[p] = <<[grant_type |-> "authorization_code", value |-> "ABC123"]>>
        /\ file.state = "json"
        /\ result[p].value = file.data["access_token"]

\* C7: for every credential triple with an empty or unset field the check
\* raises MissingRequiredArgumentsError listing exactly the names of the empty
\* fields, each once; for a triple without an empty field it raises nothing.
C7_MissingListExact ==
    \A p \in Procs :
        (path[p] = "authorize" /\ pc[p] \in {"auth_url", "failed"})
        => LET empty == { f \in FieldSet : creds[p][f] \in {None, ""} }
               listed == { result[p].missing[n] : n \in 1..Len(result[p].missing) }
           IN  IF empty # {}
               THEN /\ pc[p] = "failed"
                    /\ result[p].exc = "MissingRequiredArgumentsError"
                    /\ listed = { ArgKey(impl, f) : f \in empty }
                    /\ Len(result[p].missing) = Cardinality(empty)
               ELSE /\ pc[p] = "auth_url"
                    /\ result[p].kind = "none"

C7_Witness ==
    \E p \in Procs :
        /\ pc[p] = "failed"
        /\ creds[p]["client_id"] = ""
        /\ creds[p]["client_secret"] = "e"
        /\ creds[p]["redirect_uri"] = None
        /\ Len(result[p].missing) = 2

\* C8 (as stated): for each credential field an explicitly supplied option
\* overrides the environment variable, and the environment value is used
\* when no option is given.
C8_ExplicitOverridesEnv ==
    \A p \in Procs :
        pc[p] \in {"load", "check_args", "auth_url", "failed"}
        => \A f \in FieldSet :
              /\ args[p][f] # None =>
                    \/ creds[p][f] = args[p][f]
                    \/ (args[p][f] = "" /\ creds[p][f] \in {None, ""})
              /\ (args[p][f] = None /\ env[p][f] \notin {None, ""}) =>
                    creds[p][f] = env[p][f]

\* C9 (as stated): when the callback request, the GET of the redirect, has no
\* code parameter the flow raises AuthorizationError, sends no code exchange
\* request and writes no token record.
C9_NoCodeAuthorizationFailed ==
    \A p \in Procs :
        ( /\ listener[p] = "served"
          /\ method[p] = "GET"
          /\ "code" \notin DOMAIN query[p] )
        => /\ pc[p] = "failed"
           /\ result[p].kind = "raise"
           /\ result[p].exc = "AuthorizationError"
           /\ reqs[p] = <<>>
           /\ file = file0[p]

\* C10: when the token endpoint answers the refresh request with HTTP 400 the
\* call raises the HTTP error of raise_for_status() and the token file still
\* holds the old record, with its old access_token, refresh_token and
\* expires_at.
C10_Refresh400KeepsFile ==
    \A p \in Procs :
        (path[p] = "refresh" /\ resp[p].status = 400)
        => /\ pc[p] = "failed"
           /\ result[p].kind = "raise"
           /\ result[p].exc = "HTTPError"
           /\ result[p].status = 400
           /\ file.state = "json"
           /\ file = file0[p]
           /\ \A k \in {"access_token", "refresh_token", "expires_at"} :
                 file.data[k] = file0[p].data[k]

C10_Witness ==
    \E p \in Procs :
        /\ path[p] = "refresh"
        /\ resp[p].status = 400
        /\ pc[p] = "failed"
        /\ reqs[p] = <<[grant_type |-> "refresh_token", value |-> "R0"]>>
        /\ file = Json(StoredRecord)

\* C11 (as stated): when the token endpoint answers the code exchange with
\* any status outside 200..299 the flow fails with the HTTP error carrying the
\* provider's status and body, and no token record is created.
C11_ExchangeNon2xxFails ==
    \A p \in Procs :
        ( /\ path[p] = "authorize"
          /\ resp[p].status # 0
          /\ ~(resp[p].status >= 200 /\ resp[p].status < 300) )
        => /\ pc[p] = "failed"
           /\ result[p].kind = "raise"
           /\ result[p].exc = "HTTPError"
           /\ result[p].status = resp[p].status
           /\ result[p].body = resp[p].body
           /\ file = Absent

\* C11 (amended): when the token endpoint answers the code exchange with a
\* 4xx or 5xx status the flow fails with the HTTP error carrying the
\* provider's status and body, and no token record is created.
C11_ExchangeErrorFails ==
    \A p \in Procs :
        ( /\ path[p] = "authorize"
          /\ resp[p].status >= 400
          /\ resp[p].status < 600 )
        => /\ pc[p] = "failed"
           /\ result[p].kind = "raise"
           /\ result[p].exc = "HTTPError"
           /\ result[p].status = resp[p].status
           /\ result[p].body = resp[p].body
           /\ file = Absent

C11_Witness ==
    \E p \in Procs :
        /\ path[p] = "authorize"
        /\ reqs[p] = <<[grant_type |-> "authorization_code", value |-> "ABC123"]>>
        /\ resp[p].status = 500
        /\ pc[p] = "failed"
        /\ result[p].body = ErrorBody
        /\ file = Absent

\* C12: within one authorization flow handle_request() handles exactly one
\* request: once the first request has been handled, whatever it was, no
\* further connection is taken from the socket and the request handled stays
\* the only one, even when a second connection is waiting.
C12_OneRequestPerFlow ==
    [][ \A p \in Procs :
          calls'[p] = calls[p] =>
             /\ handled'[p] <= 1
             /\ listener[p] = "served" =>
                  /\ listener'[p] = "served"
                  /\ handled'[p] = handled[p]
                  /\ method'[p] = method[p]
                  /\ query'[p] = query[p]
                  /\ Len(inbox'[p]) >= Len(inbox[p]) ]_vars

C12_Witness ==
    \E p \in Procs :
        /\ listener[p] = "served"
        /\ handled[p] = 1
        /\ "code" \notin DOMAIN query[p]
        /\ inbox[p] = <<[method |-> "GET", query |-> [code |-> "XYZ789"]]>>
        /\ pc[p] = "failed"

\* C13: every record that _save_tokens has persisted carries the expires_at
\* computed in that call, the clock reading of the call plus the record's
\* expires_in in the seconds format of the file; an expires_at that came with
\* the response or with the stored record is not what is persisted.
C13_ExpiresAtDerived ==
    (saved.done /\ file.state = "json")
    => /\ "expires_at" \in DOMAIN file.data
       /\ file.data["expires_at"] =
             (saved.at + saved.arg["expires_in"] * TicksPerSec) \div TicksPerSec

C13_Witness ==
    /\ saved.done
    /\ file.state = "json"
    /\ "expires_at" \in DOMAIN saved.arg
    /\ saved.arg["expires_at"] = 9
    /\ file.data["expires_at"] # 9
    /\ \E p \in Procs : pc[p] = "done" /\ path[p] = "refresh"

\* C14 (as stated): a record loaded after a save has the expires_at that
\* reads as the clock of the save plus expires_in, and every other field as it
\* was handed to the save.
C14_RoundTripExact ==
    \A p \in Procs :
        (pc[p] = "expiry" /\ saved.done /\ file.state = "json")
        => /\ DOMAIN tokens[p] = DOMAIN saved.arg \cup {"expires_at"}
           /\ \A k \in PlainKeys(saved.arg) : tokens[p][k] = saved.arg[k]
           /\ tokens[p]["expires_at"] * TicksPerSec =
                 saved.at + saved.arg["expires_in"] * TicksPerSec

\* C14 (amended): a record loaded after a save has the expires_at that reads
\* as the clock of the save plus expires_in cut down to the whole second, and
\* every other field as it was handed to the save.
C14_RoundTrip ==
    \A p \in Procs :
        (pc[p] = "expiry" /\ saved.done /\ file.state = "json")
        => /\ DOMAIN tokens[p] = DOMAIN saved.arg \cup {"expires_at"}
           /\ \A k \in PlainKeys(saved.arg) : tokens[p][k] = saved.arg[k]
           /\ tokens[p]["expires_at"] * TicksPerSec
                 <= saved.at + saved.arg["expires_in"] * TicksPerSec
           /\ saved.at + saved.arg["expires_in"] * TicksPerSec
                 < (tokens[p]["expires_at"] + 1) * TicksPerSec

C14_Witness ==
    \E p \in Procs :
        /\ pc[p] = "expiry"
        /\ calls[p] = 2
        /\ saved.done
        /\ saved.at % TicksPerSec # 0
        /\ "scope" \in DOMAIN saved.arg
        /\ tokens[p] = file.data

\* C15: when the token file exists but holds no JSON document, loading fails
\* the call with the decode error of json.load; the file is not taken for an
\* absent token: no credentials check, no URL, no listener, no request, and
\* the file is left as it is.
C15_MalformedFileFails ==
    \A p \in Procs :
        (file0[p].state = "garbage" /\ pc[p] \notin {"off", "idle", "new", "load"})
        => /\ pc[p] = "failed"
           /\ result[p].kind = "raise"
           /\ result[p].exc = "JSONDecodeError"
           /\ path[p] = "none"
           /\ ~urlShown[p]
           /\ listener[p] = "none"
           /\ reqs[p] = <<>>
           /\ file = file0[p]

C15_Witness ==
    \E p \in Procs :
        /\ file0[p] = Garbage
        /\ Complete(creds[p])
        /\ pc[p] = "failed"
        /\ result[p].exc = "JSONDecodeError"

\* C16 (as stated): whoever loads the token file while another process saves
\* reads a complete record, the old one or the new one, never an empty or
\* partly written file.
C16_AtomicSave ==
    [][ ( \/ \E p \in Procs : pc[p] = "load" /\ pc'[p] # "load"
          \/ apiToken' # apiToken )
        => file.state = "json" ]_vars

\* C17 (as stated): when both invocations have refreshed and saved, the token
\* file holds the complete record of the invocation whose write came last,
\* never a mix of the two records.
C17_LastWriterWins ==
    ( \A p \in Procs : pc[p] = "done" /\ path[p] = "refresh" )
    => /\ writer \in Procs
       /\ file = Json(tokens[writer])

\* the state of the orchestrator of process p, read off its position in
\* get_access_token(): what it found in the token file, the branch it is in,
\* and how the call ended
OrchState(p) ==
    CASE pc[p] \in {"off", "idle"} -> "Idle"
      [] pc[p] \in {"new", "load"} ->
            IF file0[p].state = "absent" THEN "NoToken" ELSE "Authorized"
      [] pc[p] = "expiry" -> "Authorized"
      [] pc[p] = "done" -> "Authorized"
      [] pc[p] = "failed" -> "Failed"
      [] OTHER -> IF path[p] = "authorize" THEN "Authorizing" ELSE "Refreshing"

\* the same, in the next state
OrchStateNext(p) ==
    CASE pc'[p] \in {"off", "idle"} -> "Idle"
      [] pc'[p] \in {"new", "load"} ->
            IF file0'[p].state = "absent" THEN "NoToken" ELSE "Authorized"
      [] pc'[p] = "expiry" -> "Authorized"
      [] pc'[p] = "done" -> "Authorized"
      [] pc'[p] = "failed" -> "Failed"
      [] OTHER -> IF path'[p] = "authorize" THEN "Authorizing" ELSE "Refreshing"

\* C18: within one get_access_token() call the orchestrator moves only
\* NoToken -> Authorizing -> Authorized, Authorized -> Refreshing ->
\* Authorized, or from any state to Failed; a call that found a stored token
\* is never Authorizing, a call that found none is never Refreshing, and the
\* step into Authorized from Authorizing or Refreshing is the one that writes
\* the new record to the token file.
C18_OrchestratorTransitions ==
    [][ \A p \in Procs :
          (calls'[p] = calls[p] /\ OrchStateNext(p) # OrchState(p)) =>
             /\ <<OrchState(p), OrchStateNext(p)>> \in
                   { <<"NoToken", "Authorizing">>, <<"Authorizing", "Authorized">>,
                     <<"Authorized", "Refreshing">>, <<"Refreshing", "Authorized">>,
                     <<"NoToken", "Failed">>, <<"Authorizing", "Failed">>,
                     <<"Authorized", "Failed">>, <<"Refreshing", "Failed">> }
             /\ OrchStateNext(p) = "Authorizing" => file0[p].state = "absent"
             /\ OrchStateNext(p) = "Refreshing" => file0[p].state # "absent"
             /\ OrchStateNext(p) = "Authorized" =>
                   /\ file' # file
                   /\ file' = Json(tokens'[p])
                   /\ tokens'[p]["expires_at"] =
                         (saved.at + saved.arg["expires_in"] * TicksPerSec)
                            \div TicksPerSec ]_vars

C18_Witness ==
    \E p \in Procs :
        /\ OrchState(p) = "Authorized"
        /\ pc[p] = "done"
        /\ path[p] = "refresh"
        /\ file = Json(tokens[p])
        /\ file # file0[p]

\* C19: nothing is retried: within one get_access_token() call at most one
\* request goes to the token endpoint and the listener is bound at most once,
\* and once the call has failed (missing credentials, no code in the
\* callback, an error status of the token endpoint, or any other exception)
\* it stays failed: no request is sent, no listener is bound and the token
\* file is not written.
C19_NoRetry ==
    [][ \A p \in Procs :
          calls'[p] = calls[p] =>
             /\ Len(reqs'[p]) <= 1
             /\ listener'[p] = "bound" => listener[p] \in {"none", "bound"}
             /\ pc[p] = "failed" =>
                  /\ pc'[p] = "failed"
                  /\ result'[p] = result[p]
                  /\ reqs'[p] = reqs[p]
                  /\ listener'[p] = listener[p]
                  /\ file' = file ]_vars

C19_Witness ==
    \E p \in Procs :
        /\ pc[p] = "failed"
        /\ result[p].exc = "HTTPError"
        /\ result[p].status = 500
        /\ Len(reqs[p]) = 1
        /\ now > 0

C21_InterruptAborts ==
    \A p \in Procs :
        ( /\ result[p].exc = "KeyboardInterrupt"
          /\ path[p] = "authorize"
          /\ reqs[p] = <<>> )
        => /\ pc[p] = "failed"
           /\ file = file0[p]
           /\ file.state = "absent"
           /\ exit[p].done =>
                /\ exit[p].uncaught = ""
                /\ exit[p].out = <<Echo("Aborted!")>>

C21_Witness ==
    \E p \in Procs :
        /\ result[p].exc = "KeyboardInterrupt"
        /\ listener[p] = "bound"
        /\ handled[p] = 0
        /\ exit[p] = Aborted
        /\ file = Absent

\* C22 (as stated): when the auth command fails for missing credentials it
\* prints the missing fields as a list, no exception leaves the command, and
\* the exit status is not zero.
C22_MissingListNonZeroExit ==
    \A p \in Procs :
        (result[p].exc = "MissingRequiredArgumentsError" /\ exit[p].done)
        => /\ exit[p].uncaught = ""
           /\ Len(exit[p].out) = 1 + Len(result[p].missing)
           /\ \A n \in 1..Len(result[p].missing) :
                 exit[p].out[n + 1].text = result[p].missing[n]
           /\ exit[p].code # 0

\* C23: whenever a request has been sent to the token endpoint or the
\* loopback listener has been bound, client_id, client_secret and
\* redirect_uri are all non-empty; and a call that finds an expired stored
\* token while a credential is missing raises MissingRequiredArgumentsError,
\* sends no refresh request and leaves the token file as it was.
C23_CredentialsInvariant ==
    \A p \in Procs :
        /\ (reqs[p] # <<>> \/ listener[p] # "none")
              => \A f \in FieldSet : creds[p][f] \notin {None, ""}
        /\ ( /\ path[p] = "refresh"
             /\ pc[p] # "check_args"
             /\ \E f \in FieldSet : creds[p][f] \in {None, ""} )
              => /\ pc[p] = "failed"
                 /\ result[p].exc = "MissingRequiredArgumentsError"
                 /\ result[p].missing # <<>>
                 /\ reqs[p] = <<>>
                 /\ file = file0[p]

C23_Witness ==
    \E p \in Procs :
        /\ path[p] = "refresh"
        /\ creds[p]["client_secret"] = None
        /\ creds[p]["client_id"] = "x"
        /\ pc[p] = "failed"
        /\ exit[p].done
        /\ file = Json(StoredRecord)

\* C24 (as stated): for every status the request helper returns or raises
\* what the status calls for: 200 returns the parsed body, 201/202/204 return
\* None, 400 raises BadRequestError, 401 UnauthorizedError, 403
\* ForbiddenError, 404 NotFoundError, 429 RateLimitError, 500/502/503
\* InternalServerError and any other status SpotliAPIException (looked at
\* for the answers whose body is the JSON document the helper expects).
C24_StatusMapping ==
    (apiResp.status # 0 /\ apiResp.body \in {Payload, ErrorFull(apiResp.status)}) =>
        CASE apiResp.status = 200 ->
               apiResult.kind = "return" /\ apiResult.value = apiResp.body
          [] apiResp.status \in {201, 202, 204} ->
               apiResult.kind = "return" /\ apiResult.value = None
          [] OTHER ->
               /\ apiResult.kind = "raise"
               /\ apiResult.exc =
                     CASE apiResp.status = 400 -> "BadRequestError"
                       [] apiResp.status = 401 -> "UnauthorizedError"
                       [] apiResp.status = 403 -> "ForbiddenError"
                       [] apiResp.status = 404 -> "NotFoundError"
                       [] apiResp.status = 429 -> "RateLimitError"
                       [] apiResp.status \in {500, 502, 503} -> "InternalServerError"
                       [] OTHER -> "SpotliAPIException"

\* C25 (as stated): the user gets the authorization URL only once the
\* loopback listener is bound, and no connection to the redirect port is ever
\* made while nothing listens there.
C25_ListenerBeforeUrl ==
    \A p \in Procs :
        /\ (urlShown[p] /\ pc[p] \notin {"done", "failed"}) => listener[p] # "none"
        /\ ~refused[p]

\* C26: once a call has saved a record with expires_in > 0 and returned its
\* access_token, a later call whose expiry check runs while the clock is
\* before the persisted expires_at ends at that check: it returns the same
\* access_token, has sent no request and leaves the token file as it is.
C26_ValidWindowIdempotent ==
    [][\A p \in Procs :
          ( /\ pc[p] = "expiry"
            /\ pc'[p] # "expiry"
            /\ calls[p] >= 2
            /\ saved.done
            /\ "access_token" \in DOMAIN saved.arg
            /\ saved.arg["expires_in"] > 0
            /\ file.state = "json"
            /\ now < file.data["expires_at"] * TicksPerSec )
          => /\ pc'[p] = "done"
             /\ result'[p].kind = "return"
             /\ result'[p].value = file.data["access_token"]
             /\ reqs[p] = <<>> /\ reqs'[p] = <<>>
             /\ file' = file
             /\ file = file0[p]]_vars

\* a second call has ended without a request inside the validity window of
\* the record that the first call saved, after the clock moved on
C26_Witness ==
    \E p \in Procs :
        /\ calls[p] = 2
        /\ pc[p] = "done"
        /\ path[p] = "valid"
        /\ reqs[p] = <<>>
        /\ saved.done
        /\ saved.arg["expires_in"] > 0
        /\ saved.at < now
        /\ file.state = "json"
        /\ now < file.data["expires_at"] * TicksPerSec

\* C27: the expires_at a call finds in the record of the last save is not
\* later than the clock of that save plus expires_in and is earlier by less
\* than one second; so a call that takes the token for valid runs its check
\* no later than the true expiry instant, and a record saved with
\* expires_in = 0 off a whole second is found expired by the next call.
C27_TruncatedExpiry ==
    [][\A p \in Procs :
          ( /\ pc[p] = "expiry"
            /\ pc'[p] # "expiry"
            /\ saved.done
            /\ file.state = "json"
            /\ tokens[p] = file.data )
          => LET expiry == saved.at + saved.arg["expires_in"] * TicksPerSec
                 persisted == tokens[p]["expires_at"] * TicksPerSec
             IN  /\ persisted <= expiry
                 /\ expiry - persisted < TicksPerSec
                 /\ path'[p] = "valid" => now <= expiry
                 /\ (saved.arg["expires_in"] = 0 /\ saved.at % TicksPerSec # 0)
                       => path'[p] = "refresh"]_vars

\* the next call has found expired a record that was saved with
\* expires_in = 0 off a whole second
C27_Witness ==
    \E p \in Procs :
        /\ calls[p] = 2
        /\ pc[p] = "check_args"
        /\ path[p] = "refresh"
        /\ saved.done
        /\ saved.arg["expires_in"] = 0
        /\ saved.at % TicksPerSec # 0
        /\ tokens[p] = file.data

\* C28: a player command that finds no token file fails with
\* MissingApiTokenError before any request is sent; one that finds a token
\* record takes its access_token as the bearer token of every request,
\* expired or not; and no step of a player command changes the token file.
C28_ApiOnlyReads ==
    /\ []( apiToken.kind # "none" =>
             /\ file.state = "absent" =>
                   /\ apiToken.kind = "raise"
                   /\ apiToken.exc = "MissingApiTokenError"
                   /\ apiSent = <<>>
             /\ file.state = "json" =>
                   /\ apiToken.kind = "return"
                   /\ apiToken.value = file.data["access_token"]
                   /\ \A k \in 1..Len(apiSent) :
                         apiSent[k] = file.data["access_token"] )
    /\ [][file' = file]_vars

\* a request has gone out with the stored token after that token expired
C28_Witness ==
    /\ file.state = "json"
    /\ file.data["expires_at"] * TicksPerSec < now
    /\ apiSent # <<>>
    /\ apiSent[1] = file.data["access_token"]
    /\ apiResult.kind # "none"

\* the lines of the listing: current track, numbered tracks, "(more)"
Shown(lines) ==
    SelectSeq(lines, LAMBDA l : l.kind \in {"current", "track", "more"})

\* the tracks q from the k-th on, numbered by their place in the queue, with
\* "(more)" after every full page that is followed by another track
RECURSIVE ListFrom(_, _)
ListFrom(q, k) ==
    IF k > Len(q) THEN <<>>
    ELSE <<TrackLine(k, q[k])>>
         \o (IF k % PageSize = 0 /\ k < Len(q) THEN <<MoreLine>> ELSE <<>>)
         \o ListFrom(q, k + 1)

\* C29 (as stated): the queue command run without a URI to its end has
\* printed the currently playing track and then every queued track once, in
\* queue order, numbered 1, 2, 3, ..., with "(more)" closing each page of five
\* that another track follows.
C29_QueueListing ==
    (qpc = "done" /\ uri = None /\ qresult # <<>>)
    => Shown(out) = <<CurrentLine(Head(qresult))>> \o ListFrom(Tail(qresult), 1)

\* C30: the display loop of the queue command ends for every queue: a pass
\* over a non-empty list leaves the list shorter, an answer "y" goes on with
\* the same list and any other answer aborts, a command that went through the
\* loop to its end has an empty list, an aborted one was answered something
\* other than "y", and every run ends.
C30_QueueLoopTerminates ==
    /\ [][ /\ (qpc = "loop" /\ queue # <<>>) => Len(queue') < Len(queue)
           /\ qpc = "prompt" =>
                 /\ queue' = queue
                 /\ out'[Len(out) + 1].kind = "prompt"
                 /\ IF out'[Len(out) + 1].text = "y"
                    THEN qpc' = "loop" ELSE qpc' = "aborted" ]_vars
    /\ []( /\ (qpc = "done" /\ uri = None /\ qresult # <<>>) => queue = <<>>
           /\ qpc = "aborted" =>
                 \E k \in 1..Len(out) :
                     out[k].kind = "prompt" /\ out[k].text # "y" )
    /\ <>(qpc \in {"done", "aborted"})

\* a queue long enough for a full page has been shown to its end, the user
\* having answered "y"
C30_Witness ==
    /\ qpc = "done"
    /\ queue = <<>>
    /\ Len(qresult) > 2 * PageSize - 1
    /\ \E k \in 1..Len(out) : out[k].kind = "prompt" /\ out[k].text = "y"

====
